---------------------------- MODULE Spec2Model ----------------------------
(***************************************************************************)
(* A model of the node agent                                               *)
(*   src/cluster-manager/src/main/resources/static/res/agent/node-agent.py *)
(*                                                                         *)
(* The agent is one sequential process: main() builds a Docker client and  *)
(* a DockerMaster and then loops  update(); sleep(timeout)  for ever.      *)
(* The model follows that control flow with a program counter.  Every      *)
(* blocking call to the outside (the inspection source, psutil, the        *)
(* manager) is one step whose outcome is chosen by the environment.        *)
(*                                                                         *)
(* Conventions                                                             *)
(*   - A Python string the code takes apart (a label, a request path, a    *)
(*     secret) is a sequence of one-character strings.                     *)
(*   - A Python value that may be None, a dict, a list or a str is a       *)
(*     record with a field "kind".                                         *)
(*   - Time is counted in whole time units.  A cache entry keeps the age   *)
(*     time.time() - __load_time of its value instead of the load time;    *)
(*     the age saturates at taw + 1, all larger ages taking the same       *)
(*     branch of the test in CachedValue.get.                              *)
(***************************************************************************)
EXTENDS Integers, Sequences, FiniteSets, TLC

(***************************************************************************)
(* Bounds of the model.                                                    *)
(***************************************************************************)
\* the largest freshness window a CachedValue is built with
MaxTaw == 2

(***************************************************************************)
(* Python values.                                                          *)
(***************************************************************************)
None == [kind |-> "None"]

Str(s) == [kind |-> "str", s |-> s]

List(items) == [kind |-> "list", items |-> items]

Dict(d) == [kind |-> "dict", d |-> d]

EmptyDict == [k \in {} |-> None]

\* Python's truth value of an object: None, "", [] and {} are false.
Truthy(v) ==
  CASE v.kind = "None" -> FALSE
    [] v.kind = "str"  -> v.s # <<>>
    [] v.kind = "list" -> v.items # <<>>
    [] v.kind = "dict" -> DOMAIN v.d # {}
    [] OTHER           -> TRUE

(***************************************************************************)
(* Exceptions.  An exception the code raises or receives is an instance of *)
(* a class; the classes form Python's hierarchy.                           *)
(***************************************************************************)
NoExc == [kind |-> "noexc"]

Instance(cls, msg) == [kind |-> "instance", cls |-> cls, msg |-> msg]

Class(name) == [kind |-> "class", name |-> name]

\* the direct base class of each exception class the agent can meet
BaseOf ==
  [c \in {"BaseException", "Exception", "OSError", "ConnectionError",
          "BrokenPipeError", "ConnectionRefusedError", "ConnectionResetError",
          "RemoteDisconnected", "HTTPException", "CannotSendRequest",
          "ResponseNotReady", "BadStatusLine", "LookupError", "KeyError",
          "IndexError", "ValueError", "TypeError", "AttributeError",
          "ImportError"} |->
     CASE c = "BaseException"          -> "BaseException"
       [] c = "Exception"              -> "BaseException"
       [] c = "OSError"                -> "Exception"
       [] c = "ConnectionError"        -> "OSError"
       [] c = "BrokenPipeError"        -> "ConnectionError"
       [] c = "ConnectionRefusedError" -> "ConnectionError"
       [] c = "ConnectionResetError"   -> "ConnectionError"
       [] c = "RemoteDisconnected"     -> "ConnectionResetError"
       [] c = "HTTPException"          -> "Exception"
       [] c = "CannotSendRequest"      -> "HTTPException"
       [] c = "ResponseNotReady"       -> "HTTPException"
       [] c = "BadStatusLine"          -> "HTTPException"
       [] c = "LookupError"            -> "Exception"
       [] c = "KeyError"               -> "LookupError"
       [] c = "IndexError"             -> "LookupError"
       [] c = "ValueError"             -> "Exception"
       [] c = "TypeError"              -> "Exception"
       [] c = "AttributeError"         -> "Exception"
       [] OTHER                        -> "Exception"]

RECURSIVE IsSubclass(_, _)
IsSubclass(c, d) ==
  IF c = d THEN TRUE
  ELSE IF BaseOf[c] = c THEN FALSE
  ELSE IsSubclass(BaseOf[c], d)

\* what a clause "except <cls>:" catches
Catches(cls, e) == e.kind = "instance" /\ IsSubclass(e.cls, cls)

\* Python's "a is b": the two names denote the same object
PyIs(a, b) == a = b

(***************************************************************************)
(* Results of an operation that may raise.                                 *)
(***************************************************************************)
Ok(v) == [exc |-> NoExc, val |-> v]

Raise(e) == [exc |-> e, val |-> None]

\* v[key] for a key of a dict
GetItem(v, key) ==
  IF v.kind # "dict" THEN Raise(Instance("TypeError", "not subscriptable"))
  ELSE IF key \notin DOMAIN v.d THEN Raise(Instance("KeyError", key))
  ELSE Ok(v.d[key])

\* v[0] for a list
First(v) ==
  IF v.kind # "list" THEN Raise(Instance("TypeError", "not subscriptable"))
  ELSE IF v.items = <<>> THEN Raise(Instance("IndexError", "list index out of range"))
  ELSE Ok(v.items[1])

(***************************************************************************)
(* Strings.                                                                *)
(***************************************************************************)
\* s.split(sep) for a one-character separator: the list of the segments
RECURSIVE Split(_, _)
Split(s, sep) ==
  IF s = <<>> THEN << <<>> >>
  ELSE LET rest == Split(Tail(s), sep)
       IN  IF Head(s) = sep THEN << <<>> >> \o rest
           ELSE << <<Head(s)>> \o rest[1] >> \o Tail(rest)

Digit(d) ==
  CASE d = 0 -> "0" [] d = 1 -> "1" [] d = 2 -> "2" [] d = 3 -> "3"
    [] d = 4 -> "4" [] d = 5 -> "5" [] d = 6 -> "6" [] d = 7 -> "7"
    [] d = 8 -> "8" [] OTHER -> "9"

\* str(n) for an int n >= 0
RECURSIVE DecStr(_)
DecStr(n) ==
  IF n < 10 THEN <<Digit(n)>>
  ELSE DecStr(n \div 10) \o <<Digit(n % 10)>>

DiscoveryPrefix ==
  <<"/", "d", "i", "s", "c", "o", "v", "e", "r", "y", "/",
    "n", "o", "d", "e", "s", "/">>

TtlParam == <<"?", "t", "t", "l", "=">>

N1 == <<"n", "1">>

Node1 == <<"n", "o", "d", "e", "1">>

(***************************************************************************)
(* What the inspection source may answer.  A body is the Python value      *)
(* json.loads makes of it.                                                 *)
(***************************************************************************)
LabelEnvProd == Str(<<"e", "n", "v", "=", "p", "r", "o", "d">>)

LabelBad == Str(<<"b", "a", "d">>)

InfoProd ==
  Dict("Name" :> Str(N1) @@ "ID" :> Str(<<"0", "0", ":", "1", "1">>)
       @@ "Labels" :> List(<<LabelEnvProd>>))

InfoEmptyLabels ==
  Dict("Name" :> Str(Node1) @@ "ID" :> Str(<<"a", "b", ":", "c", "d">>)
       @@ "Labels" :> List(<<>>))

InfoNullLabels ==
  Dict("Name" :> Str(Node1) @@ "ID" :> Str(<<"a", "b", ":", "c", "d">>)
       @@ "Labels" :> None)

InfoNoLabels ==
  Dict("Name" :> Str(Node1) @@ "ID" :> Str(<<"a", "b", ":", "c", "d">>))

InfoBadLabel ==
  Dict("Name" :> Str(N1) @@ "ID" :> Str(<<"0", "0", ":", "1", "1">>)
       @@ "Labels" :> List(<<LabelBad>>))

InfoBodies ==
  {InfoProd, InfoEmptyLabels, InfoNullLabels, InfoNoLabels, InfoBadLabel,
   Dict(EmptyDict), None}

ContainerApp ==
  Dict("Id" :> Str(<<"c", "1">>)
       @@ "Names" :> List(<<Str(<<"/", "n", "1", "/", "a", "p", "p">>)>>)
       @@ "Image" :> Str(<<"i", "m", "g", ":", "1">>)
       @@ "Labels" :> Dict(EmptyDict))

ContainerBare ==
  Dict("Id" :> Str(<<"c", "2">>)
       @@ "Names" :> List(<<Str(<<"/", "d", "b">>)>>)
       @@ "Image" :> Str(<<"i", "m", "g", ":", "2">>)
       @@ "Labels" :> Dict(EmptyDict))

ContainersBodies ==
  {List(<<>>), List(<<ContainerApp, ContainerBare>>), None}

\* one exchange with the inspection source, as the environment decides it
DockerOutcome(t, status, body) == [t |-> t, status |-> status, body |-> body]

DockerOutcomes(bodies) ==
  {DockerOutcome("refused", 0, None), DockerOutcome("bad_status_line", 0, None),
   DockerOutcome("response", 500, None), DockerOutcome("bad_json", 200, None)}
  \cup {DockerOutcome("response", 200, b) : b \in bodies}

(***************************************************************************)
(* Configuration (Bootstrap).                                              *)
(***************************************************************************)
\* default_value["secret"], the placeholder the server's preprocessor fills
DefaultSecret == Str(<<"$", "S", "E", "C", "R", "E", "T", "$">>)

\* the secrets a command line (-s) may give; None when it gives none
ArgSecrets == {None, Str(<<"$", "k", "$">>)}

\* the secrets the [main] section of a config file may give
CfgSecrets == {None, Str(<<"s", "3">>)}

\* the update intervals (-t) of the runs checked
Timeouts == {1, 10}

\* mutant of IsPlaceholder: the placeholder is taken for a value
NeverPlaceholder(res) == FALSE

\* a default the preprocessor has not replaced: '$...$'
IsPlaceholder(res) ==
  Len(res.s) > 2 /\ res.s[1] = "$" /\ res.s[Len(res.s)] = "$"

\* Bootstrap.__init__.get(name) without a converter: the command line, then
\* the config file, then the default unless it is still a placeholder
BootstrapGet(arg, cfg, default) ==
  LET res1 == arg
      res2 == IF res1 = None THEN cfg ELSE res1
      res3 == IF res2 = None
              THEN (IF default # None /\ IsPlaceholder(default)
                    THEN None ELSE default)
              ELSE res2
  IN  res3

\* mutant of Ttl: the update interval itself
TtlIsInterval(t) == t

\* ttl is a least two of update interval in seconds
Ttl(t) == t * 2

(***************************************************************************)
(* State.                                                                  *)
(***************************************************************************)
VARIABLES
  pc,          \* where main() is: "info", "containers", "status", "send"
               \* inside update(), "sleep" in time.sleep, "dead" once an
               \* exception has left main()
  taw,         \* time_after_write of the two CachedValues of Docker
  timeout,     \* bs.timeout
  argSecret,   \* args.secret
  cfgSecret,   \* config['main'].get('secret')
  secret,      \* bs.secret, which is DockerMaster.secret
  cache,       \* Docker.__info and Docker.__containers: data and load time
  dockerConn,  \* Docker.conn
  masterConn,  \* DockerMaster.conn
  tries,       \* the retry loop's counter
  cyc,         \* the locals of the call of update(), kept until it has returned
  attempts,    \* the calls of do_register() of that call, in order
  log,         \* what that call has logged
  lastGet,     \* the last call of CachedValue.get of that call
  call,        \* a method called on its own: its argument and its result
  docker_id    \* Docker.__id

vars ==
  <<pc, taw, timeout, argSecret, cfgSecret, secret, cache, dockerConn,
    masterConn, tries, cyc, attempts, log, lastGet, call, docker_id>>

Unset == [kind |-> "unset"]

Min(a, b) == IF a < b THEN a ELSE b

(***************************************************************************)
(* CachedValue.                                                            *)
(***************************************************************************)
\* CachedValue.__init__
NewCachedValue == [data |-> None, has_time |-> FALSE, age |-> 0]

\* mutant of NeedsLoad: "if self.__data is None or ..."
NeedsLoadIfNone(e) == e.data = None \/ e.age <= taw

\* the test of CachedValue.get, with t - __load_time written e.age
NeedsLoad(e) == ~Truthy(e.data) \/ e.age <= taw

\* the entry after d more time units
Aged(e, d) ==
  IF e.has_time THEN [e EXCEPT !.age = Min(e.age + d, taw + 1)] ELSE e

(***************************************************************************)
(* Docker, the client of the inspection source.                            *)
(*                                                                         *)
(* Docker.conn is None or an http.client.HTTPConnection:                   *)
(*   "idle"      open, ready for a request                                 *)
(*   "unread"    open, the last response was not read to its end           *)
(*   "req_sent"  open, a request was sent and no response was obtained     *)
(* http.client sends a request on an "idle" or "unread" connection and     *)
(* raises CannotSendRequest on a "req_sent" one; getresponse() raises      *)
(* ResponseNotReady while an earlier response is unread.                   *)
(***************************************************************************)
\* Docker.__open
DockerOpen(conn) == IF conn # "None" THEN conn ELSE "idle"

DockerFailed(conn, e, logged) ==
  [conn |-> conn, exc |-> e, val |-> None, logged |-> logged]

\* Docker.__send(path) with the environment's outcome o
DockerSend(conn, o) ==
  LET c1 == DockerOpen(conn)
  IN  IF c1 = "req_sent"
      THEN DockerFailed("None", Instance("CannotSendRequest", "Request-sent"), TRUE)
      ELSE IF o.t = "refused"
      THEN DockerFailed("None", Instance("ConnectionRefusedError", "refused"), TRUE)
      ELSE IF c1 = "unread"
      THEN DockerFailed("req_sent", Instance("ResponseNotReady", "Idle"), FALSE)
      ELSE IF o.t = "bad_status_line"
      THEN DockerFailed("req_sent", Instance("BadStatusLine", "line"), FALSE)
      ELSE IF o.status # 200
      THEN DockerFailed("unread", Instance("Exception", "Invalid response"), FALSE)
      ELSE IF o.t = "bad_json"
      THEN DockerFailed("idle", Instance("ValueError", "json"), FALSE)
      ELSE [conn |-> "idle", exc |-> NoExc, val |-> o.body, logged |-> FALSE]

\* mutant of CacheGet: a load that raises empties the entry and stamps it
CacheGetStoresFailure(e, conn, o) ==
  IF NeedsLoad(e)
  THEN LET r == DockerSend(conn, o)
       IN  IF r.exc # NoExc
           THEN [entry |-> [data |-> None, has_time |-> TRUE, age |-> 0],
                 conn |-> r.conn, exc |-> r.exc, val |-> None,
                 invoked |-> TRUE, logged |-> r.logged]
           ELSE [entry |-> [data |-> r.val, has_time |-> TRUE, age |-> 0],
                 conn |-> r.conn, exc |-> NoExc, val |-> r.val,
                 invoked |-> TRUE, logged |-> FALSE]
  ELSE [entry |-> e, conn |-> conn, exc |-> NoExc, val |-> e.data,
        invoked |-> FALSE, logged |-> FALSE]

\* CachedValue.get() of entry e whose loader is Docker.__send: the entry and
\* the connection afterwards, the exception or the value returned
CacheGet(e, conn, o) ==
  IF NeedsLoad(e)
  THEN LET r == DockerSend(conn, o)
       IN  IF r.exc # NoExc
           THEN [entry |-> e, conn |-> r.conn, exc |-> r.exc, val |-> None,
                 invoked |-> TRUE, logged |-> r.logged]
           ELSE [entry |-> [data |-> r.val, has_time |-> TRUE, age |-> 0],
                 conn |-> r.conn, exc |-> NoExc, val |-> r.val,
                 invoked |-> TRUE, logged |-> FALSE]
  ELSE [entry |-> e, conn |-> conn, exc |-> NoExc, val |-> e.data,
        invoked |-> FALSE, logged |-> FALSE]

\* the record kept of a call of CachedValue.get
GetRecord(which, e, g) ==
  [cache |-> which, had |-> e.has_time, age |-> e.age, before |-> e.data,
   invoked |-> g.invoked, exc |-> g.exc, result |-> g.val]

(***************************************************************************)
(* DockerMaster: the payload.                                              *)
(***************************************************************************)
\* mutant of ProcessContainer: the first entry of Names is the name
ProcessContainerWholeName(c) ==
  LET names == GetItem(c, "Names")
      first == First(names.val)
      id == GetItem(c, "Id")
      image == GetItem(c, "Image")
      labels == GetItem(c, "Labels")
  IN  IF names.exc # NoExc THEN Raise(names.exc)
      ELSE IF first.exc # NoExc THEN Raise(first.exc)
      ELSE IF id.exc # NoExc THEN Raise(id.exc)
      ELSE IF image.exc # NoExc THEN Raise(image.exc)
      ELSE IF labels.exc # NoExc THEN Raise(labels.exc)
      ELSE Ok([id |-> id.val, name |-> first.val, image |-> image.val,
               labels |-> labels.val])

\* DockerMaster.process_container(c)
ProcessContainer(c) ==
  LET names == GetItem(c, "Names")
      first == First(names.val)
      name_src == Split(first.val.s, "/")
      name == name_src[Len(name_src)]
      id == GetItem(c, "Id")
      image == GetItem(c, "Image")
      labels == GetItem(c, "Labels")
  IN  IF names.exc # NoExc THEN Raise(names.exc)
      ELSE IF first.exc # NoExc THEN Raise(first.exc)
      ELSE IF id.exc # NoExc THEN Raise(id.exc)
      ELSE IF image.exc # NoExc THEN Raise(image.exc)
      ELSE IF labels.exc # NoExc THEN Raise(labels.exc)
      ELSE Ok([id |-> id.val, name |-> Str(name), image |-> image.val,
               labels |-> labels.val])

RECURSIVE MapProcess(_)
MapProcess(items) ==
  IF items = <<>> THEN [exc |-> NoExc, val |-> <<>>]
  ELSE LET h == ProcessContainer(Head(items))
           t == MapProcess(Tail(items))
       IN  IF h.exc # NoExc THEN [exc |-> h.exc, val |-> <<>>]
           ELSE IF t.exc # NoExc THEN t
           ELSE [exc |-> NoExc, val |-> <<h.val>> \o t.val]

\* list(map(self.process_container, docker.containers()))
MapContainers(v) ==
  IF v.kind # "list"
  THEN [exc |-> Instance("TypeError", "not iterable"), val |-> <<>>]
  ELSE MapProcess(v.items)

\* dict(pairs) for the lists a.split('=') of the labels, the later pair of a
\* key replacing the earlier; a list that is no pair raises ValueError
RECURSIVE DictOfLabels(_, _)
DictOfLabels(items, acc) ==
  IF items = <<>> THEN [exc |-> NoExc, val |-> acc]
  ELSE LET kv == Split(Head(items).s, "=")
       IN  IF Len(kv) # 2
           THEN [exc |-> Instance("ValueError", "dictionary update sequence"),
                 val |-> EmptyDict]
           ELSE DictOfLabels(Tail(items),
                  [k \in DOMAIN acc \cup {kv[1]} |->
                     IF k = kv[1] THEN kv[2] ELSE acc[k]])

\* dict(map(lambda a: a.split('='), labels_arr)) if labels_arr else {}
LabelsDict(labels_arr) ==
  IF ~Truthy(labels_arr) THEN [exc |-> NoExc, val |-> EmptyDict]
  ELSE IF labels_arr.kind # "list"
  THEN [exc |-> Instance("TypeError", "not iterable"), val |-> EmptyDict]
  ELSE DictOfLabels(labels_arr.items, EmptyDict)

\* the status get_status() starts from
DefaultStatus ==
  [cpuLoad |-> 0,
   memory |-> [total |-> 0, available |-> 0, used |-> 0],
   disks |-> ("/" :> [total |-> 0, used |-> 0]
              @@ "/home" :> [total |-> 0, used |-> 0]),
   net |-> [n \in {} |-> [bytesOut |-> 0, bytesIn |-> 0]]]

\* what psutil measures on the host of the runs checked
PsutilNics ==
  "lo" :> [bytesOut |-> 7, bytesIn |-> 7]
  @@ "eth0" :> [bytesOut |-> 20, bytesIn |-> 30]

PsutilDisks == "/" :> [total |-> 100, used |-> 40]

\* where psutil fails, if it does: at the import, at a call, or nowhere
StatusOutcomes == {"import", "disks", "none"}

\* DockerMaster.get_status() when psutil fails at step fail
GetStatus(fail) ==
  LET s0 == DefaultStatus
      s1 == IF fail = "import" THEN s0
            ELSE [s0 EXCEPT !.cpuLoad = 50,
                            !.memory = [total |-> 8, available |-> 5, used |-> 3]]
      s2 == IF fail \in {"import", "disks"} THEN s1
            ELSE [s1 EXCEPT !.disks = PsutilDisks]
      s3 == IF fail \in {"import", "disks"} THEN s2
            ELSE [s2 EXCEPT !.net =
                    [n \in DOMAIN PsutilNics \ {"lo"} |-> PsutilNics[n]]]
  IN  s3

\* docker.host + ":" + docker.port
DockerAddress == Str(<<"172.31.0.12", ":", "2375">>)

\* json.dumps(data): the text is kept as the value it encodes
JsonDumps(data) == [kind |-> "json", of |-> data]

\* '/discovery/nodes/' + id + "?ttl=" + str(self.timeout)
RegisterPath(id, ttl) == DiscoveryPrefix \o id \o TtlParam \o DecStr(ttl)

(***************************************************************************)
(* DockerMaster: the send protocol.                                        *)
(***************************************************************************)
HttpOK == 200

HttpUnauthorized == 401

\* the statuses the manager answers with in the runs checked
Statuses == {200, 204, 401, 500}

\* one attempt as the environment decides it: the request fails
\* ("broken_pipe"), the response fails ("reset") or the manager answers
MasterOutcomes ==
  {[t |-> x, status |-> 0] : x \in {"broken_pipe", "reset"}}
  \cup {[t |-> "response", status |-> st] : st \in Statuses}

\* mutant of MasterOpen: a discarded connection is not opened again
MasterNeverOpens(conn) == conn

\* DockerMaster.open
MasterOpen(conn) == IF conn # "None" THEN conn ELSE "idle"

\* the method of the registration request
RegisterMethod == "POST"

ContentType == Str(<<"application/json">>)

\* the headers do_register() builds
RegisterHeaders(sec) ==
  IF sec # None
  THEN "Content-Type" :> ContentType @@ "X-Auth-Node" :> sec
  ELSE "Content-Type" :> ContentType

\* mutant of StatusIsOK: every 2xx status
StatusIs2xx(status) == status \in 200..299

\* r.status != http.client.OK
StatusIsOK(status) == status = HttpOK

\* the exception do_register() raises for a status, NoExc for none
StatusError(status) ==
  IF StatusIsOK(status) THEN NoExc
  ELSE IF status = HttpUnauthorized
  THEN Instance("Exception", "require authorization")
  ELSE Instance("Exception", "Invalid response")

\* do_register() with the environment's outcome o: used is the connection
\* the request is made on, opened tells that open() has made it
DoRegister(conn, sec, path, json_data, o) ==
  LET c1 == MasterOpen(conn)
      req == [method |-> RegisterMethod, path |-> path,
              headers |-> RegisterHeaders(sec), body |-> json_data]
      exc == CASE o.t = "broken_pipe" -> Instance("BrokenPipeError", "Broken pipe")
               [] o.t = "reset" -> Instance("RemoteDisconnected", "closed")
               [] OTHER -> StatusError(o.status)
  IN  [conn |-> IF exc # NoExc THEN "None" ELSE c1,
       exc |-> exc, req |-> req,
       received |-> o.t = "response",
       used |-> c1,
       opened |-> c1 # conn]

TriesInit == 3

\* mutant of RetryNow: every exception is tried again
RetryAnyException(e) == Catches("Exception", e)

\* "if e is BrokenPipeError": the caught instance against the class object
RetryNow(e) == PyIs(e, Class("BrokenPipeError"))

\* "except Exception as e" of the retry loop
LoopCatches(e) == Catches("Exception", e)

\* mutant of AfterAttempt: the loop goes on after a call that has returned
AfterAttemptNoBreak(e) ==
  IF e = NoExc THEN "continue"
  ELSE IF ~LoopCatches(e) THEN "propagate"
  ELSE IF RetryNow(e) THEN "continue"
  ELSE "log_break"

\* the body of the retry loop after do_register() has returned (NoExc) or
\* raised e: break, continue, log and break, or the exception leaves the loop
AfterAttempt(e) ==
  IF e = NoExc THEN "break"
  ELSE IF ~LoopCatches(e) THEN "propagate"
  ELSE IF RetryNow(e) THEN "continue"
  ELSE "log_break"

\* mutant of OuterCatches: "except OSError as e"
OuterCatchesOSError(e) == Catches("OSError", e)

\* "except Exception as e" of update()
OuterCatches(e) == Catches("Exception", e)

(***************************************************************************)
(* The program.                                                            *)
(***************************************************************************)
\* the locals of update() before its first statement; psutil is the step at
\* which psutil failed in the call of get_status()
NoCycle ==
  [info |-> Unset, name |-> Unset, path |-> <<>>, labels_arr |-> Unset,
   conts |-> Unset, containers |-> <<>>, labels |-> EmptyDict,
   payload |-> Unset, json_data |-> Unset, exc |-> NoExc,
   psutil |-> "unset"]

\* no method is called on its own
NoCall == [fn |-> "none", arg |-> Unset, ret |-> Unset]

NoGet ==
  [cache |-> "none", had |-> FALSE, age |-> 0, before |-> None,
   invoked |-> FALSE, exc |-> NoExc, result |-> None]

\* a record of the log: logging.error / logging.exception / logging.warning
LogEntry(at, e) == [at |-> at, exc |-> e]

\* mutant of AfterRaise: a failed call is followed at once by the next
AfterRaiseNoSleep(e) == "info"

\* mutant of AfterRaise: update() goes on to the status and the sending
AfterRaiseGoesOn(e) == "status"

\* where update() goes with exception e raised in its try block
AfterRaise(e) == IF OuterCatches(e) THEN "sleep" ELSE "dead"

\* what update() logs for exception e raised in its try block
OuterLog(e) == IF OuterCatches(e) THEN <<LogEntry("outer", e)>> ELSE <<>>

\* how the call of update() that has returned ended
CycleResult ==
  IF /\ cyc.exc = NoExc
     /\ attempts # <<>>
     /\ attempts[Len(attempts)].exc = NoExc
  THEN "ok" ELSE "failed"

\* main() up to the loop: Bootstrap(), Docker(bs.docker), DockerMaster(...)
Init ==
  /\ pc = "info"
  /\ taw \in 1..MaxTaw
  /\ timeout \in Timeouts
  /\ argSecret \in ArgSecrets
  /\ cfgSecret \in CfgSecrets
  /\ secret = BootstrapGet(argSecret, cfgSecret, DefaultSecret)
  /\ cache = [info |-> NewCachedValue, containers |-> NewCachedValue]
  /\ dockerConn = "None"
  /\ masterConn = MasterOpen("None")
  /\ tries = 0
  /\ cyc = NoCycle
  /\ attempts = <<>>
  /\ log = <<>>
  /\ lastGet = NoGet
  /\ call = NoCall
  /\ docker_id = None

\* update(): info = docker.info(); name = info['Name']; the path;
\* labels_arr = info['Labels']
UpdateInfo ==
  /\ pc = "info"
  /\ \E o \in DockerOutcomes(InfoBodies) :
       LET g == CacheGet(cache.info, dockerConn, o)
           nameR == IF g.exc # NoExc THEN Raise(g.exc)
                    ELSE GetItem(g.val, "Name")
           labR == IF nameR.exc # NoExc THEN Raise(nameR.exc)
                   ELSE GetItem(g.val, "Labels")
           exc == labR.exc
       IN  /\ cache' = [cache EXCEPT !.info = g.entry]
           /\ dockerConn' = g.conn
           /\ lastGet' = GetRecord("info", cache.info, g)
           /\ cyc' = [NoCycle EXCEPT
                        !.info = IF g.exc = NoExc THEN g.val ELSE Unset,
                        !.name = IF nameR.exc = NoExc THEN nameR.val ELSE Unset,
                        !.path = IF nameR.exc = NoExc
                                 THEN RegisterPath(nameR.val.s, Ttl(timeout))
                                 ELSE <<>>,
                        !.labels_arr = IF labR.exc = NoExc THEN labR.val ELSE Unset,
                        !.exc = exc]
           /\ log' = (IF g.logged THEN <<LogEntry("docker", g.exc)>> ELSE <<>>)
                     \o (IF exc # NoExc THEN OuterLog(exc) ELSE <<>>)
           /\ pc' = IF exc = NoExc THEN "containers" ELSE AfterRaise(exc)
  /\ UNCHANGED <<taw, timeout, argSecret, cfgSecret, secret, masterConn,
                 tries, attempts, call, docker_id>>

\* update(): 'containers': list(map(self.process_container,
\* docker.containers())) and 'labels': dict(...) if labels_arr else {}
UpdateContainers ==
  /\ pc = "containers"
  /\ \E o \in DockerOutcomes(ContainersBodies) :
       LET g == CacheGet(cache.containers, dockerConn, o)
           mapped == IF g.exc # NoExc THEN [exc |-> g.exc, val |-> <<>>]
                     ELSE MapContainers(g.val)
           labels == IF mapped.exc # NoExc
                     THEN [exc |-> mapped.exc, val |-> EmptyDict]
                     ELSE LabelsDict(cyc.labels_arr)
           exc == labels.exc
       IN  /\ cache' = [cache EXCEPT !.containers = g.entry]
           /\ dockerConn' = g.conn
           /\ lastGet' = GetRecord("containers", cache.containers, g)
           /\ cyc' = [cyc EXCEPT
                        !.conts = IF g.exc = NoExc THEN g.val ELSE Unset,
                        !.containers = mapped.val,
                        !.labels = labels.val,
                        !.exc = exc]
           /\ log' = log
                     \o (IF g.logged THEN <<LogEntry("docker", g.exc)>> ELSE <<>>)
                     \o (IF exc # NoExc THEN OuterLog(exc) ELSE <<>>)
           /\ pc' = IF exc = NoExc THEN "status" ELSE AfterRaise(exc)
  /\ UNCHANGED <<taw, timeout, argSecret, cfgSecret, secret, masterConn,
                 tries, attempts, call, docker_id>>

\* update(): 'system': self.get_status(); json_data = json.dumps(data);
\* tries = 3
UpdateStatus ==
  /\ pc = "status"
  /\ \E fail \in StatusOutcomes :
       LET data == [kind |-> "payload", id |-> cyc.name, name |-> cyc.name,
                    address |-> DockerAddress,
                    containers |-> cyc.containers, labels |-> cyc.labels,
                    system |-> GetStatus(fail)]
       IN  /\ cyc' = [cyc EXCEPT !.payload = data,
                                 !.json_data = JsonDumps(data),
                                 !.psutil = fail]
           /\ log' = IF fail # "none"
                     THEN Append(log, LogEntry("psutil", NoExc)) ELSE log
  /\ tries' = TriesInit
  /\ pc' = "send"
  /\ UNCHANGED <<taw, timeout, argSecret, cfgSecret, secret, cache,
                 dockerConn, masterConn, attempts, lastGet, call, docker_id>>

\* update(): one pass of "while tries > 0"
SendAttempt ==
  /\ pc = "send"
  /\ tries > 0
  /\ \E o \in MasterOutcomes :
       LET t1 == tries - 1
           r == DoRegister(masterConn, secret, cyc.path, cyc.json_data, o)
           att == [n |-> Len(attempts) + 1, connBefore |-> masterConn,
                   connAfter |-> r.conn, opened |-> r.opened,
                   used |-> r.used, req |-> r.req,
                   outcome |-> o, received |-> r.received, exc |-> r.exc]
           next == AfterAttempt(r.exc)
       IN  /\ tries' = t1
           /\ masterConn' = r.conn
           /\ attempts' = Append(attempts, att)
           /\ log' = CASE next = "log_break" -> Append(log, LogEntry("loop", r.exc))
                       [] next = "propagate" -> log \o OuterLog(r.exc)
                       [] OTHER -> log
           /\ cyc' = IF next = "propagate" THEN [cyc EXCEPT !.exc = r.exc]
                     ELSE cyc
           /\ pc' = CASE next = "continue" -> IF t1 > 0 THEN "send" ELSE "sleep"
                      [] next = "propagate" -> AfterRaise(r.exc)
                      [] OTHER -> "sleep"
  /\ UNCHANGED <<taw, timeout, argSecret, cfgSecret, secret, cache,
                 dockerConn, lastGet, call, docker_id>>

\* main(): time.sleep(bs.timeout), then the next pass of "while True"
Sleep ==
  /\ pc = "sleep"
  /\ cache' = [k \in DOMAIN cache |-> Aged(cache[k], timeout)]
  /\ pc' = "info"
  /\ cyc' = NoCycle
  /\ attempts' = <<>>
  /\ log' = <<>>
  /\ lastGet' = NoGet
  /\ tries' = 0
  /\ UNCHANGED <<taw, timeout, argSecret, cfgSecret, secret, dockerConn,
                 masterConn, call, docker_id>>

Next == UpdateInfo \/ UpdateContainers \/ UpdateStatus \/ SendAttempt \/ Sleep

Spec == Init /\ [][Next]_vars

\* The runs of an agent started without a secret, in which every step of the
\* sequential program is taken in the end: each blocking call returns or
\* raises, and time.sleep returns.  (The secret takes no part in the control
\* flow.)
FairInit == Init /\ argSecret = None /\ cfgSecret = None

FairSpec == FairInit /\ [][Next]_vars /\ WF_vars(Next)

\* The runs of FairSpec with the shortest cache window and update interval,
\* neither of which the retry loop reads.
RetryInit == FairInit /\ taw = 1 /\ timeout = 1

RetrySpec == RetryInit /\ [][Next]_vars /\ WF_vars(Next)

(***************************************************************************)
(* process_container() called on its own, on the records of the workloads  *)
(* the inspection source may list.                                         *)
(***************************************************************************)
\* the longest name of a workload, in tokens
MaxNameLen == 4

\* the tokens of the names: the separator and two texts without it
NameTokens == {"/", "hostA", "myApp"}

\* the sequences over S of length at most n
SeqsUpTo(S, n) == UNION {[1..k -> S] : k \in 0..n}

\* an entry of GET /containers/json: its Names start with names
ContainerNamed(id, names, labels) ==
  Dict("Id" :> Str(id)
       @@ "Names" :> List(names)
       @@ "Image" :> Str(<<"i", "m", "g", ":", "1">>)
       @@ "Labels" :> labels)

ContainerArgs ==
  {ContainerNamed(id, <<Str(n)>> \o more, labels) :
     id \in {<<"c", "1">>, <<"c", "2">>},
     n \in SeqsUpTo(NameTokens, MaxNameLen),
     more \in {<<>>, <<Str(<<"/", "other">>)>>},
     labels \in {Dict(EmptyDict),
                 Dict("tier" :> Str(<<"web">>))}}

\* DockerMaster as main() has built it, and the argument of the call
ProcessInit ==
  /\ pc = "call"
  /\ taw = 1
  /\ timeout = 1
  /\ argSecret = None
  /\ cfgSecret = None
  /\ secret = BootstrapGet(argSecret, cfgSecret, DefaultSecret)
  /\ cache = [info |-> NewCachedValue, containers |-> NewCachedValue]
  /\ dockerConn = "None"
  /\ masterConn = MasterOpen("None")
  /\ tries = 0
  /\ cyc = NoCycle
  /\ attempts = <<>>
  /\ log = <<>>
  /\ lastGet = NoGet
  /\ docker_id = None
  /\ \E c \in ContainerArgs :
       call = [fn |-> "process_container", arg |-> c, ret |-> Unset]

\* self.process_container(c) returns or raises
ProcessContainerCall ==
  /\ call.fn = "process_container"
  /\ call.ret = Unset
  /\ call' = [call EXCEPT !.ret = ProcessContainer(call.arg)]
  /\ UNCHANGED <<pc, taw, timeout, argSecret, cfgSecret, secret, cache,
                 dockerConn, masterConn, tries, cyc, attempts, log, lastGet,
                 docker_id>>

ProcessNext == ProcessContainerCall

ProcessSpec == ProcessInit /\ [][ProcessNext]_vars

(***************************************************************************)
(* Docker called by a consumer of its own: info(), containers() and id()   *)
(* in any order, the consumer changing in between the value it was handed. *)
(*                                                                         *)
(* A value handed out is kept with what it shares with the value a cache   *)
(* stores: "same" when it is that very object, "inner" when it is another  *)
(* object whose members are the members of the stored one, "none" when no  *)
(* object of it is an object of the stored value.                          *)
(***************************************************************************)
\* the object CachedValue.get() of cache k returns: the stored one
StoredObject(k, v) == [val |-> v, of |-> k, alias |-> "same"]

\* mutant of DeepCopy: copy.copy(obj)
ShallowCopy(obj) ==
  [obj EXCEPT !.alias = IF obj.alias = "none" THEN "none" ELSE "inner"]

\* copy.deepcopy(obj)
DeepCopy(obj) == [obj EXCEPT !.alias = "none"]

\* s.replace(old, new) for a one-character old
RECURSIVE Replace(_, _, _)
Replace(s, old, new) ==
  IF s = <<>> THEN <<>>
  ELSE (IF Head(s) = old THEN new ELSE <<Head(s)>>)
       \o Replace(Tail(s), old, new)

\* the bodies of GET /info and of GET /containers/json in these runs
ApiInfoBodies == {InfoProd, InfoEmptyLabels, Dict(EmptyDict)}

ApiContainersBodies == {List(<<>>), List(<<ContainerApp, ContainerBare>>)}

\* the exchanges with the inspection source in these runs
ApiOutcomes(bodies) ==
  {DockerOutcome("refused", 0, None)}
  \cup {DockerOutcome("response", 200, b) : b \in bodies}

\* what a consumer may do to a dict or list it holds: to the object itself
\* ("top": set keys, append an element) or to a member of it ("inner":
\* append to info['Labels'], set a key of the first workload)
Mutated(v, how) ==
  CASE how = "top" /\ v.kind = "dict" ->
         Dict(("Name" :> Str(<<"x">>) @@ "ID" :> Str(<<"x", ":", "x">>)) @@ v.d)
    [] how = "top" /\ v.kind = "list" ->
         List(Append(v.items, Str(<<"x">>)))
    [] how = "inner" /\ v.kind = "dict" ->
         IF "Labels" \in DOMAIN v.d /\ v.d.Labels.kind = "list"
         THEN Dict([v.d EXCEPT !.Labels =
                      List(Append(@.items, Str(<<"x", "=", "y">>)))])
         ELSE v
    [] how = "inner" /\ v.kind = "list" ->
         IF v.items # <<>> /\ v.items[1].kind = "dict"
         THEN List([v.items EXCEPT ![1] = Dict("Id" :> Str(<<"x">>) @@ @.d)])
         ELSE v
    [] OTHER -> v

\* Docker.__init__, with nothing called yet
DockerInit ==
  /\ pc = "call"
  /\ taw \in 1..MaxTaw
  /\ timeout = 1
  /\ argSecret = None
  /\ cfgSecret = None
  /\ secret = BootstrapGet(argSecret, cfgSecret, DefaultSecret)
  /\ cache = [info |-> NewCachedValue, containers |-> NewCachedValue]
  /\ dockerConn = "None"
  /\ masterConn = MasterOpen("None")
  /\ tries = 0
  /\ cyc = NoCycle
  /\ attempts = <<>>
  /\ log = <<>>
  /\ lastGet = NoGet
  /\ call = NoCall
  /\ docker_id = None

\* Docker.info()
DockerInfo ==
  /\ pc = "call"
  /\ \E o \in ApiOutcomes(ApiInfoBodies) :
       LET g == CacheGet(cache.info, dockerConn, o)
       IN  /\ cache' = [cache EXCEPT !.info = g.entry]
           /\ dockerConn' = g.conn
           /\ call' = [fn |-> "info", arg |-> Unset,
                       ret |-> IF g.exc # NoExc THEN Raise(g.exc)
                               ELSE Ok(DeepCopy(StoredObject("info", g.val)))]
  /\ UNCHANGED <<pc, taw, timeout, argSecret, cfgSecret, secret, masterConn,
                 tries, cyc, attempts, log, lastGet, docker_id>>

\* Docker.containers()
DockerContainers ==
  /\ pc = "call"
  /\ \E o \in ApiOutcomes(ApiContainersBodies) :
       LET g == CacheGet(cache.containers, dockerConn, o)
       IN  /\ cache' = [cache EXCEPT !.containers = g.entry]
           /\ dockerConn' = g.conn
           /\ call' = [fn |-> "containers", arg |-> Unset,
                       ret |-> IF g.exc # NoExc THEN Raise(g.exc)
                               ELSE Ok(DeepCopy(StoredObject("containers",
                                                             g.val)))]
  /\ UNCHANGED <<pc, taw, timeout, argSecret, cfgSecret, secret, masterConn,
                 tries, cyc, attempts, log, lastGet, docker_id>>

\* Docker.id(): a str, which no consumer can change
DockerId ==
  /\ pc = "call"
  /\ IF Truthy(docker_id)
     THEN /\ call' = [fn |-> "id", arg |-> Unset,
                      ret |-> Ok([val |-> docker_id, of |-> "none",
                                  alias |-> "none"])]
          /\ UNCHANGED <<cache, dockerConn, docker_id>>
     ELSE \E o \in ApiOutcomes(ApiInfoBodies) :
            LET g == CacheGet(cache.info, dockerConn, o)
                idR == IF g.exc # NoExc THEN Raise(g.exc)
                       ELSE GetItem(g.val, "ID")
                new == IF idR.exc # NoExc THEN docker_id
                       ELSE Str(Replace(idR.val.s, ":", <<>>))
            IN  /\ cache' = [cache EXCEPT !.info = g.entry]
                /\ dockerConn' = g.conn
                /\ docker_id' = new
                /\ call' = [fn |-> "id", arg |-> Unset,
                            ret |-> IF idR.exc # NoExc THEN Raise(idR.exc)
                                    ELSE Ok([val |-> new, of |-> "none",
                                             alias |-> "none"])]
  /\ UNCHANGED <<pc, taw, timeout, argSecret, cfgSecret, secret, masterConn,
                 tries, cyc, attempts, log, lastGet>>

\* the consumer changes, once, the dict or list the last call has handed to
\* it; the objects of it that are objects of a cache's stored value change
\* there too
ConsumerMutate ==
  /\ pc = "call"
  /\ call.fn \in {"info", "containers", "id"}
  /\ call.ret.exc = NoExc
  /\ call.ret.val.val.kind \in {"dict", "list"}
  /\ \E how \in {"top", "inner"} :
       LET h == call.ret.val
           hits == h.alias = "same" \/ (h.alias = "inner" /\ how = "inner")
       IN  /\ call' = [fn |-> "mutate", arg |-> [kind |-> "how", how |-> how],
                       ret |-> Ok([h EXCEPT !.val = Mutated(@, how)])]
           /\ cache' = IF hits
                       THEN [cache EXCEPT ![h.of].data = Mutated(@, how)]
                       ELSE cache
  /\ UNCHANGED <<pc, taw, timeout, argSecret, cfgSecret, secret, dockerConn,
                 masterConn, tries, cyc, attempts, log, lastGet, docker_id>>

\* one time unit passes between two calls
DockerWait ==
  /\ pc = "call"
  /\ call.fn # "process_container"
  /\ cache' = [k \in DOMAIN cache |-> Aged(cache[k], 1)]
  /\ UNCHANGED <<pc, taw, timeout, argSecret, cfgSecret, secret, dockerConn,
                 masterConn, tries, cyc, attempts, log, lastGet, call,
                 docker_id>>

DockerNext ==
  DockerInfo \/ DockerContainers \/ DockerId \/ ConsumerMutate \/ DockerWait

DockerSpec == DockerInit /\ [][DockerNext]_vars

(***************************************************************************)
(* Vocabulary of the properties.                                           *)
(***************************************************************************)
\* update() has returned to main()
Returned == pc = "sleep"

\* a transport reset: a broken pipe, or the peer closing the connection
TransportReset(e) ==
  e.kind = "instance" /\ e.cls \in {"BrokenPipeError", "RemoteDisconnected"}

\* the calls of do_register() that raised
Failed(i) == attempts[i].exc # NoExc

\* the value of a decimal numeral
RECURSIVE ParseDec(_)
ParseDec(s) ==
  IF s = <<>> THEN 0
  ELSE ParseDec(SubSeq(s, 1, Len(s) - 1)) * 10
       + (CHOOSE d \in 0..9 : Digit(d) = s[Len(s)])

\* a request target /discovery/nodes/{id}?ttl={seconds} read back
ParsePath(path) ==
  LET q == Split(path, "?")
      segs == Split(q[1], "/")
      kv == Split(q[Len(q)], "=")
  IN  [wellformed |-> /\ Len(q) = 2
                      /\ Len(segs) = 4
                      /\ segs[1] = <<>>
                      /\ segs[2] = <<"d", "i", "s", "c", "o", "v", "e", "r", "y">>
                      /\ segs[3] = <<"n", "o", "d", "e", "s">>
                      /\ Len(kv) = 2
                      /\ kv[1] = <<"t", "t", "l">>,
       id |-> segs[Len(segs)],
       ttl |-> ParseDec(kv[Len(kv)])]

\* a record of the log that reports a failure of the registration
FailureLogged == \E i \in 1..Len(log) : log[i].at \in {"loop", "outer"}

(***************************************************************************)
(* C1.                                                                     *)
(***************************************************************************)
\* C1: once CachedValue.get() has loaded a value, a further get() made less
\* than taw time units after that load returns the stored value and does not
\* invoke the loader.  (Stated for the stored values Python takes as true,
\* the ones for which the comparison of the times decides; the claim as
\* worded covers them.)
C1_FreshGetServedFromCache ==
  (/\ lastGet.cache # "none"
   /\ lastGet.had
   /\ Truthy(lastGet.before)
   /\ lastGet.age < taw)
    => (~lastGet.invoked /\ lastGet.result = lastGet.before)

(***************************************************************************)
(* C2.                                                                     *)
(***************************************************************************)
\* C2: a CachedValue.get() made more than taw time units after the last load
\* invokes the loader again and, the loader returning, stores its result with
\* the current time and returns it.
C2_ExpiredGetReloads ==
  (lastGet.cache # "none" /\ lastGet.had /\ lastGet.age > taw)
    => /\ lastGet.invoked
       /\ lastGet.exc = NoExc =>
            cache[lastGet.cache] =
              [data |-> lastGet.result, has_time |-> TRUE, age |-> 0]

(***************************************************************************)
(* C3.                                                                     *)
(***************************************************************************)
\* C3: when every attempt of the send protocol fails with a transport reset,
\* one call of update() makes exactly 3 attempts and then returns.
C3_ResetIsTriedThreeTimes ==
  (/\ Returned
   /\ attempts # <<>>
   /\ \A i \in 1..Len(attempts) : TransportReset(attempts[i].exc))
    => Len(attempts) = 3

(***************************************************************************)
(* C4.                                                                     *)
(***************************************************************************)
\* C4: a send attempt that fails with anything but a transport reset (a 401,
\* an invalid response) is the last attempt of its call of update().
C4_OtherFailureEndsTheCycle ==
  \A i \in 1..Len(attempts) :
    (Failed(i) /\ ~TransportReset(attempts[i].exc))
      => (i = Len(attempts) /\ pc # "send")

\* a call of update() that has returned after one attempt, answered 401
C4_Witness ==
  /\ Returned
  /\ Len(attempts) = 1
  /\ attempts[1].received
  /\ attempts[1].outcome.status = 401
  /\ Failed(1)

(***************************************************************************)
(* C5.                                                                     *)
(***************************************************************************)
\* C5: no exception leaves update(): whatever fails in the inspection source,
\* in the payload, in the status probe or in a send attempt, main() goes on.
C5_UpdateNeverRaises == pc # "dead"

\* a call of update() that has returned after an exception raised by the
\* inspection step or by the payload's construction
C5_Witness ==
  /\ Returned
  /\ cyc.exc # NoExc
  /\ attempts = <<>>
  /\ \E i \in 1..Len(log) : log[i] = LogEntry("outer", cyc.exc)

(***************************************************************************)
(* C6.                                                                     *)
(***************************************************************************)
\* C6: registering and sleeping alternate for ever: update() is left only for
\* time.sleep(timeout), a sleep is left only for the next call of update(), a
\* call of update() starts only after a sleep (or at the start of main), and a
\* call of update() starts again and again, also after a failed one.
C6_RegisterSleepAlternate ==
  /\ [][/\ (pc # "sleep" /\ pc' # pc) => pc' \in {"containers", "status", "send", "sleep"}
        /\ (pc = "sleep" /\ pc' # pc) =>
             (pc' = "info" /\ cache' = [k \in DOMAIN cache |-> Aged(cache[k], timeout)])
        /\ (pc' = "info" /\ pc' # pc) => pc = "sleep"]_vars
  /\ []<>(pc = "info")

\* a failed call of update() that has returned into the sleep
C6_Witness == Returned /\ CycleResult = "failed" /\ cyc.exc # NoExc

(***************************************************************************)
(* C7.                                                                     *)
(***************************************************************************)
\* C7 as stated: every 2xx status of the manager is a success of the attempt
\* (nothing raised, no failure logged, no further attempt, the connection
\* kept), 401 is an authorization error and the other statuses are
\* invalid-response errors.
C7_Any2xxIsSuccess ==
  \A i \in 1..Len(attempts) :
    attempts[i].received =>
      LET st == attempts[i].outcome.status
      IN  /\ st \in 200..299 =>
               (/\ ~Failed(i)
                /\ attempts[i].connAfter # "None"
                /\ ~FailureLogged
                /\ i = Len(attempts))
          /\ st = 401 =>
               attempts[i].exc = Instance("Exception", "require authorization")
          /\ st \notin (200..299) \cup {401} =>
               attempts[i].exc = Instance("Exception", "Invalid response")

\* C7 amended: status 200 alone is a success of the attempt (nothing raised,
\* no failure logged, no further attempt, the connection kept), 401 is an
\* authorization error and every other status, the other 2xx included, is an
\* invalid-response error.
C7_Only200IsSuccess ==
  \A i \in 1..Len(attempts) :
    attempts[i].received =>
      LET st == attempts[i].outcome.status
      IN  /\ st = 200 =>
               (/\ ~Failed(i)
                /\ attempts[i].connAfter # "None"
                /\ ~FailureLogged
                /\ i = Len(attempts))
          /\ st = 401 =>
               attempts[i].exc = Instance("Exception", "require authorization")
          /\ st \notin {200, 401} =>
               attempts[i].exc = Instance("Exception", "Invalid response")

\* an attempt the manager answered with 204, which raised an invalid response
C7_Witness ==
  /\ attempts # <<>>
  /\ attempts[1].received
  /\ attempts[1].outcome.status = 204
  /\ attempts[1].exc = Instance("Exception", "Invalid response")
  /\ attempts[1].connAfter = "None"

(***************************************************************************)
(* C8.                                                                     *)
(***************************************************************************)
\* the calls of do_register() whose request the manager answered
ReceivedRequests == {i \in 1..Len(attempts) : attempts[i].received}

\* a call of update() that has returned, in which the inspection source
\* answered and the manager accepted the first attempt
AcceptedAtOnce ==
  /\ Returned
  /\ cyc.info # Unset
  /\ cyc.conts # Unset
  /\ attempts # <<>>
  /\ ~Failed(1)

\* the one request of such a call, of method m
OneRequestOf(m) ==
  /\ Len(attempts) = 1
  /\ ReceivedRequests = {1}
  /\ attempts[1].req.method = m
  /\ LET p == ParsePath(attempts[1].req.path)
     IN  /\ p.wellformed
         /\ p.id = cyc.info.d["Name"].s
         /\ p.ttl = 2 * timeout

\* C8 as stated: when the inspection source answers and the manager accepts
\* the first attempt, the manager receives exactly one request in the cycle, a
\* PUT to /discovery/nodes/{Name}?ttl={2 * timeout}.
C8_OnePutRequest == AcceptedAtOnce => OneRequestOf("PUT")

\* C8 amended: in such a cycle the manager receives exactly one request, a
\* POST to /discovery/nodes/{Name}?ttl={2 * timeout}.
C8_OnePostRequest == AcceptedAtOnce => OneRequestOf("POST")

\* the cycle of node n1 with timeout 10: one request with ttl=20
C8_Witness ==
  /\ AcceptedAtOnce
  /\ timeout = 10
  /\ cyc.name = Str(N1)
  /\ ParsePath(attempts[1].req.path).ttl = 20

(***************************************************************************)
(* C9.                                                                     *)
(***************************************************************************)
\* a secret is configured: the command line or the config file gives one
SecretConfigured == argSecret # None \/ cfgSecret # None

\* C9: every send attempt carries the header X-Auth-Node, with the configured
\* secret as its value, exactly when a secret is configured; with none (the
\* default being the placeholder $SECRET$) the header is absent.
C9_AuthHeaderIffSecret ==
  \A i \in 1..Len(attempts) :
    LET h == attempts[i].req.headers
    IN  /\ ("X-Auth-Node" \in DOMAIN h) <=> SecretConfigured
        /\ SecretConfigured =>
             h["X-Auth-Node"] = (IF argSecret # None THEN argSecret ELSE cfgSecret)

\* an attempt of an agent whose secret comes from the config file
C9_Witness ==
  /\ attempts # <<>>
  /\ argSecret = None
  /\ cfgSecret = Str(<<"s", "3">>)
  /\ attempts[1].req.headers["X-Auth-Node"] = Str(<<"s", "3">>)

(***************************************************************************)
(* C10.                                                                    *)
(***************************************************************************)
\* the info of the cycle names node1 and has no labels: Labels is the empty
\* list or is not in the info
Node1WithoutLabels ==
  /\ cyc.info.kind = "dict"
  /\ "Name" \in DOMAIN cyc.info.d
  /\ cyc.info.d["Name"] = Str(Node1)
  /\ \/ "Labels" \notin DOMAIN cyc.info.d
     \/ cyc.info.d["Labels"] = List(<<>>)

\* C10: for an info with Name "node1" whose Labels is empty or absent and an
\* empty workload list, update() produces a payload whose id and name are
\* "node1", whose containers is the empty sequence and whose labels is the
\* empty mapping.
C10_PayloadOfNode1 ==
  (/\ Returned
   /\ Node1WithoutLabels
   /\ lastGet.exc = NoExc
   /\ cyc.conts \in {Unset, List(<<>>)})
    => /\ cyc.payload # Unset
       /\ cyc.payload.id = Str(Node1)
       /\ cyc.payload.name = Str(Node1)
       /\ cyc.payload.containers = <<>>
       /\ cyc.payload.labels = EmptyDict

(***************************************************************************)
(* C11.                                                                    *)
(***************************************************************************)
\* the call of update() has built its payload with psutil failing to import
PsutilNotLoaded == cyc.psutil = "import" /\ cyc.payload # Unset

\* C11: when psutil cannot be imported, get_status() returns a status whose
\* cpuLoad and memory fields are zero and whose disks and net mappings are
\* empty, nothing is raised, and the call of update() sends that payload to
\* the manager.
C11_NoPsutilGivesEmptyStatus ==
  PsutilNotLoaded =>
    /\ cyc.payload.system.cpuLoad = 0
    /\ cyc.payload.system.memory = [total |-> 0, available |-> 0, used |-> 0]
    /\ DOMAIN cyc.payload.system.disks = {}
    /\ DOMAIN cyc.payload.system.net = {}
    /\ pc # "dead"
    /\ Returned => /\ attempts # <<>>
                   /\ attempts[1].req.body = JsonDumps(cyc.payload)

(***************************************************************************)
(* C12.                                                                    *)
(***************************************************************************)
\* the index of the last "/" of name n, 0 when it has none
LastSlash(n) ==
  LET at == {i \in 1..Len(n) : n[i] = "/"}
  IN  IF at = {} THEN 0 ELSE CHOOSE i \in at : \A j \in at : j <= i

\* the text of name n after its last "/"
TextAfterLastSlash(n) == SubSeq(n, LastSlash(n) + 1, Len(n))

HostAMyApp == <<"/", "hostA", "/", "myApp">>

DockerRequestFailed ==
  lastGet.cache # "none" /\ lastGet.invoked /\ lastGet.exc # NoExc

\* an exception http.client raises for the state a connection was left in
LeftoverState(e) ==
  e.kind = "instance" /\ e.cls \in {"ResponseNotReady", "CannotSendRequest"}

\* C13: after a request to the inspection source has failed (while connecting
\* or sending, while reading the response, or with a status other than 2xx),
\* Docker.conn is None, and no request fails because of the state an earlier
\* one has left the connection in.
C13_FailedRequestDropsConnection ==
  DockerRequestFailed => (dockerConn = "None" /\ ~LeftoverState(lastGet.exc))

(***************************************************************************)
(* C14.                                                                    *)
(***************************************************************************)
\* attempt a of the send protocol keeps to the discipline: the connection is
\* None after it exactly if it raised; when it did not raise, the connection
\* it used is left open; it opens a connection exactly if there was none
AttemptKeepsDiscipline(a) ==
  /\ (a.connAfter = "None") <=> (a.exc # NoExc)
  /\ a.exc = NoExc => (a.connAfter = a.used /\ a.connAfter # "None")
  /\ a.connBefore = "None" => (a.opened /\ a.used # "None")
  /\ a.connBefore # "None" => (~a.opened /\ a.used = a.connBefore)

\* C14: after each attempt of the send protocol DockerMaster.conn is None if
\* and only if the attempt raised; after an attempt that did not raise, the
\* connection it used is left open; an attempt that starts with conn None
\* opens a connection before it sends; and nothing between two attempts, of
\* one call of update() or of two, changes DockerMaster.conn, so that each
\* attempt starts with the connection the attempt before it has left.
C14_ManagerConnectionDiscipline ==
  /\ [](/\ \A i \in 1..Len(attempts) : AttemptKeepsDiscipline(attempts[i])
        /\ \A i \in 2..Len(attempts) :
             attempts[i].connBefore = attempts[i - 1].connAfter
        /\ attempts # <<>> => masterConn = attempts[Len(attempts)].connAfter)
  /\ [][/\ masterConn' # masterConn => Len(attempts') = Len(attempts) + 1
        /\ Len(attempts') = Len(attempts) + 1 =>
             attempts'[Len(attempts')].connBefore = masterConn]_vars

\* a call of update() whose first attempt found no connection, the attempt of
\* the call before having raised, opened one and was accepted
C14_Witness ==
  /\ attempts # <<>>
  /\ attempts[1].connBefore = "None"
  /\ attempts[1].opened
  /\ attempts[1].exc = NoExc
  /\ masterConn = "idle"

(***************************************************************************)
(* C15.                                                                    *)
(***************************************************************************)
\* C15: in every reachable state of a CachedValue the stored value is None if
\* and only if the load time is None, whatever the loader has returned.
C15_ValueAbsentIffTimeAbsent ==
  \A k \in DOMAIN cache : (cache[k].data = None) <=> ~cache[k].has_time

(***************************************************************************)
(* C16.                                                                    *)
(***************************************************************************)
\* the entry of CachedValue.get()'s cache as the last call found it
EntryBeforeLastGet ==
  [data |-> lastGet.before, has_time |-> lastGet.had, age |-> lastGet.age]

\* C16: when the loader raises inside CachedValue.get() (a request to the
\* inspection source that fails, or is answered with a status other than 2xx),
\* the exception reaches the caller, and the value and the load time of the
\* entry are what they were before the call: the step changes neither cache.
C16_FailedLoadLeavesEntry ==
  /\ []((lastGet.cache # "none" /\ lastGet.exc # NoExc) =>
          /\ lastGet.invoked
          /\ cyc.exc = lastGet.exc
          /\ cache[lastGet.cache] = EntryBeforeLastGet)
  /\ [][(lastGet' # lastGet /\ lastGet'.exc # NoExc) => cache' = cache]_vars

\* a get() on an entry that holds a value and a load time, whose loader was
\* answered with status 500
C16_Witness ==
  /\ lastGet.cache # "none"
  /\ lastGet.had
  /\ Truthy(lastGet.before)
  /\ lastGet.invoked
  /\ lastGet.exc = Instance("Exception", "Invalid response")
  /\ cache[lastGet.cache].data = lastGet.before

(***************************************************************************)
(* C17.                                                                    *)
(***************************************************************************)
\* the step is a change the consumer makes to a value handed to it
MutationStep == call' # call /\ call'.fn = "mutate"

\* the step is a call of info() or containers() that returns
HandOutStep ==
  /\ call' # call
  /\ call'.fn \in {"info", "containers"}
  /\ call'.ret.exc = NoExc

\* the values of Docker.id() for the bodies of GET /info
LoadedIds ==
  {Str(Replace(b.d.ID.s, ":", <<>>)) :
     b \in {x \in ApiInfoBodies : "ID" \in DOMAIN x.d}}

\* C17: what Docker.info() and Docker.containers() hand out are deep copies:
\* no change a consumer makes to a value handed to it changes the value a
\* cache stores or the id Docker has kept, so that the caches hold, and every
\* later info(), containers() and id() returns, what the inspection source
\* has answered.
C17_HandedOutValuesAreCopies ==
  /\ [](/\ cache.info.data \in ApiInfoBodies \cup {None}
        /\ cache.containers.data \in ApiContainersBodies \cup {None}
        /\ docker_id \in LoadedIds \cup {None})
  /\ [][/\ MutationStep => (cache' = cache /\ docker_id' = docker_id)
        /\ HandOutStep => call'.ret.val.val = cache'[call'.fn].data]_vars

\* the consumer has appended a label to the Labels of the value info() has
\* handed to it, and the info cache still holds what was loaded
C17_Witness ==
  /\ call.fn = "mutate"
  /\ call.arg.how = "inner"
  /\ call.ret.val.of = "info"
  /\ cache.info.data = InfoProd
  /\ call.ret.val.val = Mutated(InfoProd, "inner")
  /\ call.ret.val.val # InfoProd

(***************************************************************************)
(* C18.                                                                    *)
(***************************************************************************)
\* C18: when a request to the inspection source fails in a call of update(),
\* the call ends there: it has returned, it has made no attempt of the send
\* protocol, DockerMaster.conn is what it was before the request, and the
\* next request to the inspection source is the one of the next call, after
\* the sleep.
C18_InspectionFailureEndsTheCycle ==
  /\ [](DockerRequestFailed => (Returned /\ attempts = <<>>))
  /\ [][/\ (lastGet' # lastGet /\ lastGet'.exc # NoExc) =>
             (masterConn' = masterConn /\ attempts' = <<>>)
        /\ DockerRequestFailed =>
             (pc' = "info" /\ lastGet' = NoGet /\ masterConn' = masterConn)]_vars

\* GET /containers/json has failed after GET /info was answered, and update()
\* has returned without an attempt
C18_Witness ==
  /\ DockerRequestFailed
  /\ lastGet.cache = "containers"
  /\ cyc.info # Unset
  /\ Returned
  /\ attempts = <<>>
  /\ masterConn = "idle"

(***************************************************************************)
(* C19.                                                                    *)
(***************************************************************************)
\* C19: whatever the outcomes of the attempts, one call of update() makes at
\* most 3 attempts of the send protocol and none after one that has
\* succeeded; the counter of the retry loop falls by one with every attempt
\* and never below 0, and the loop, once entered, is left.
C19_AtMostThreeAttempts ==
  /\ [](/\ Len(attempts) <= 3
        /\ \A i \in 1..(Len(attempts) - 1) : Failed(i)
        /\ tries >= 0
        /\ pc = "send" => (tries > 0 /\ tries + Len(attempts) = 3))
  /\ (pc = "send") ~> Returned

\* a call of update() that has returned after a first attempt that succeeded,
\* with two tries left
C19_Witness ==
  /\ Returned
  /\ Len(attempts) = 1
  /\ ~Failed(1)
  /\ tries = 2

(***************************************************************************)
(* C20.                                                                    *)
(***************************************************************************)
\* the last call of CachedValue.get() found a stored value Python takes as
\* false: None, an empty list, an empty dict
FalsyValueStored == lastGet.cache # "none" /\ ~Truthy(lastGet.before)

\* C20: a CachedValue.get() that finds a falsy stored value invokes the
\* loader, however long ago the value was loaded; so a node without workloads,
\* whose containers cache holds the empty list, sends GET /containers/json in
\* every call of update() that gets as far.
C20_FalsyValueIsAlwaysReloaded ==
  /\ FalsyValueStored => lastGet.invoked
  /\ (pc = "status" /\ lastGet.before = List(<<>>)) =>
       (lastGet.cache = "containers" /\ lastGet.invoked)

\* a call of update() on a node without workloads: the empty list was loaded
\* more than taw time units ago, and GET /containers/json is sent again
C20_Witness ==
  /\ lastGet.cache = "containers"
  /\ lastGet.had
  /\ lastGet.before = List(<<>>)
  /\ lastGet.age > taw
  /\ lastGet.invoked
  /\ lastGet.result = List(<<>>)
====
